---- MODULE Spec2Model ----
(***************************************************************************)
(* Model of src/app.js, a small Nostr wiki (NIP-54) reader.                *)
(*                                                                         *)
(* The program is single-threaded and event-driven.  One action of the     *)
(* model is one task of the event loop together with the microtasks it     *)
(* queues: a click handler running a flow up to its first pending await,   *)
(* a socket's open/error/close callback together with the continuation of  *)
(* the flow awaiting it, or the dispatch of one inbound message to the     *)
(* listeners of the socket it arrives on.                                  *)
(***************************************************************************)
EXTENDS Integers, Sequences, FiniteSets, TLC

VARIABLES
    socks,          \* every WebSocket created by connect, in creation order
    ws,             \* app.js:10  index into socks of the tracked socket, 0 = null
    currentRelay,   \* app.js:11  relay URL of the last socket that opened, NoRelay = null
    subIdCounter,   \* app.js:12
    subs,           \* every subscription issued by subscribe; index = counter value in its id
    articles,       \* the <li> children of #articles
    viewer,         \* content of #viewer (and #viewer-title)
    alertMsg,       \* text passed to alert() by the last step, NoAlert if none
    raised,         \* error thrown by the code run in the last step, NoError if none
    nFlows,         \* number of flows invoked so far (the aborted ones too)
    nFrames,        \* number of inbound frames delivered so far
    nCalls,         \* number of direct calls of subscribe or of a cancel function so far
    budget,         \* how many flows, frames and direct calls this run may see
    call            \* one evaluation of a function of the page on its own: name, argument, result

vars == <<socks, ws, currentRelay, subIdCounter, subs, articles, viewer,
          alertMsg, raised, nFlows, nFrames, nCalls, budget, call>>

-----------------------------------------------------------------------------
(* Bounds of the model *)

MaxFlows == 3
MaxFrames == 4
MaxCalls == 2

\* A run of the page is rich in flows, or rich in frames, or has some of both.
Budgets == { [flows |-> MaxFlows, frames |-> 0, calls |-> 0],
             [flows |-> 3, frames |-> 1, calls |-> 0],
             [flows |-> 2, frames |-> MaxFrames - 2, calls |-> 0],
             [flows |-> 1, frames |-> MaxFrames, calls |-> 0] }

\* A run in which subscribe and the cancel functions are also called directly.
ApiBudgets == { [flows |-> 2, frames |-> 1, calls |-> MaxCalls] }

-----------------------------------------------------------------------------
(* WebSocket readyState values and the close code used by connect *)

CONNECTING == 0
OPEN == 1
CLOSING == 2
CLOSED == 3
NormalClosure == 1000

NoRelay == "null"
Relays == {"wss://x", "wss://y"}
\* the value of #relay when the script runs
InitialRelay == "wss://x"

NoAlert == "none"
NoError == "none"
NotOpenError == "websocket not open"
TypeError == "TypeError"
InvalidStateError == "InvalidStateError"

-----------------------------------------------------------------------------
(* Text: a string is a sequence of one-character strings *)

LowerCase == << "a", "b", "c", "d", "e", "f", "g", "h", "i", "j", "k", "l", "m",
               "n", "o", "p", "q", "r", "s", "t", "u", "v", "w", "x", "y", "z" >>
UpperCase == << "A", "B", "C", "D", "E", "F", "G", "H", "I", "J", "K", "L", "M",
               "N", "O", "P", "Q", "R", "S", "T", "U", "V", "W", "X", "Y", "Z" >>

\* the characters the class [a-z] matches
Letters == { LowerCase[k] : k \in 1..Len(LowerCase) }
\* the characters \s matches, of those the model writes
Whitespace == {" ", "\n"}

toLowerCase(c) ==
    IF \E k \in 1..Len(UpperCase) : UpperCase[k] = c
    THEN LowerCase[CHOOSE k \in 1..Len(UpperCase) : UpperCase[k] = c]
    ELSE c

RECURSIVE trimStart(_)
trimStart(s) ==
    IF s # <<>> /\ Head(s) \in Whitespace THEN trimStart(Tail(s)) ELSE s

RECURSIVE trimEnd(_)
trimEnd(s) ==
    IF s # <<>> /\ s[Len(s)] \in Whitespace
    THEN trimEnd(SubSeq(s, 1, Len(s) - 1)) ELSE s

trim(s) == trimEnd(trimStart(s))

\* .replace(/-+/g, '-')
RECURSIVE collapseHyphens(_)
collapseHyphens(s) ==
    IF Len(s) < 2 THEN s
    ELSE IF s[1] = "-" /\ s[2] = "-" THEN collapseHyphens(Tail(s))
    ELSE <<s[1]>> \o collapseHyphens(Tail(s))

\* mutant: the hyphen at the end stays
stripHyphens_StartOnly(s) == IF s # <<>> /\ Head(s) = "-" THEN Tail(s) ELSE s

\* .replace(/^-|-$/g, ''): one hyphen off the start, one off the end
stripHyphens(s) ==
    LET a == IF s # <<>> /\ Head(s) = "-" THEN Tail(s) ELSE s
    IN  IF a # <<>> /\ a[Len(a)] = "-" THEN SubSeq(a, 1, Len(a) - 1) ELSE a

normalizeDTag(input) ==
    IF input = <<>> THEN <<>>
    ELSE LET lower == [i \in 1..Len(input) |-> toLowerCase(input[i])]
             hyph  == [i \in 1..Len(lower) |->
                          IF lower[i] \in Letters THEN lower[i] ELSE "-"]
         IN  stripHyphens(collapseHyphens(hyph))

\* values the user can have typed into #topic
TopicInputs == { <<>>, <<" ">>, <<" ", "-">>, <<"!", "-", " ">>, <<"a", " ", "B">> }

-----------------------------------------------------------------------------
(* Text renderer.  Markup is a sequence whose elements are the characters   *)
(* that came from the article and, each as one element, the pieces of the   *)
(* templates of lines 40, 44, 47 and 50.  No piece holds "nostr:" or        *)
(* "http", so no pass matches inside one.                                   *)

WikiOpen == "<a href=\"#\" data-wiki=\""
WikiMid == "\" class=\"wikilink\">"
LinkOpen == "<a href=\""
LinkMid == "\" target=\"_blank\" rel=\"noopener\">"
AnchorEnd == "</a>"
ParaOpen == "<p>"
ParaClose == "</p>"
Br == "<br>"
Pieces == {WikiOpen, WikiMid, LinkOpen, LinkMid, AnchorEnd, ParaOpen, ParaClose, Br}

Digits == {"0", "1", "2", "3", "4", "5", "6", "7", "8", "9"}
\* the characters \w matches
WordChars == Letters \cup { UpperCase[k] : k \in 1..Len(UpperCase) } \cup Digits \cup {"_"}

\* s.replaceAll(c, by) for a character c
RECURSIVE replaceAll(_, _, _)
replaceAll(s, c, by) ==
    IF s = <<>> THEN <<>>
    ELSE (IF Head(s) = c THEN by ELSE <<Head(s)>>) \o replaceAll(Tail(s), c, by)

\* lines 25-30
escapeHtml(s) ==
    replaceAll(replaceAll(replaceAll(s, "&", <<"&", "a", "m", "p", ";">>),
                          "<", <<"&", "l", "t", ";">>),
               ">", <<"&", "g", "t", ";">>)

\* the least index k >= from with s[k] in set, 0 if there is none
RECURSIVE indexOf(_, _, _)
indexOf(s, set, from) ==
    IF from > Len(s) THEN 0
    ELSE IF s[from] \in set THEN from
    ELSE indexOf(s, set, from + 1)

\* the last index of the run of elements of set that starts at from
\* (from - 1 if s[from] is not in set)
RECURSIVE runEnd(_, _, _)
runEnd(s, set, from) ==
    IF from > Len(s) \/ s[from] \notin set THEN from - 1
    ELSE runEnd(s, set, from + 1)

StartsWith(s, prefix) == Len(s) >= Len(prefix) /\ SubSeq(s, 1, Len(prefix)) = prefix

NoMatch == [found |-> FALSE, target |-> <<>>, label |-> <<>>, hasLabel |-> FALSE, end |-> 0]

\* line 37: /\[\[([^\]\|]+?)(?:\|([^\]]+))?\]\]/ matched at the start of s.
\* The target cannot hold "]" or "|", so it ends at the first of them; the
\* label cannot hold "]", so it ends at the first one after the "|".
wikiMatch(s) ==
    IF ~StartsWith(s, <<"[", "[">>) THEN NoMatch
    ELSE LET t == indexOf(s, {"]", "|"}, 3)
             l == indexOf(s, {"]"}, t + 1)
         IN  IF t <= 3 THEN NoMatch
             ELSE IF s[t] = "]" /\ t + 1 <= Len(s) /\ s[t + 1] = "]"
             THEN [found |-> TRUE, target |-> SubSeq(s, 3, t - 1), label |-> <<>>,
                   hasLabel |-> FALSE, end |-> t + 1]
             ELSE IF s[t] = "|" /\ l > t + 1 /\ l + 1 <= Len(s) /\ s[l + 1] = "]"
             THEN [found |-> TRUE, target |-> SubSeq(s, 3, t - 1),
                   label |-> SubSeq(s, t + 1, l - 1), hasLabel |-> TRUE, end |-> l + 1]
             ELSE NoMatch

\* lines 38-40: the replacement for one match, target and label as matched
\* in the escaped text
wikiAnchor(target, label, hasLabel) ==
    LET d    == normalizeDTag(target)
        text == IF hasLabel THEN escapeHtml(label) ELSE escapeHtml(trim(target))
    IN  <<WikiOpen>> \o d \o <<WikiMid>> \o text \o <<AnchorEnd>>

\* lines 37-41: safe.replace(..., fn)
RECURSIVE wikiPass(_)
wikiPass(s) ==
    IF s = <<>> THEN <<>>
    ELSE LET m == wikiMatch(s)
         IN  IF m.found
             THEN wikiAnchor(m.target, m.label, m.hasLabel)
                     \o wikiPass(SubSeq(s, m.end + 1, Len(s)))
             ELSE <<Head(s)>> \o wikiPass(Tail(s))

\* the replacement string of lines 44 and 47
linkAnchor(url) == <<LinkOpen>> \o url \o <<LinkMid>> \o url \o <<AnchorEnd>>

NostrScheme == <<"n", "o", "s", "t", "r", ":">>

\* line 44: /(nostr:[\w\d:+-]+)/g
RECURSIVE nostrPass(_)
nostrPass(s) ==
    IF s = <<>> THEN <<>>
    ELSE LET e == runEnd(s, WordChars \cup {":", "+", "-"}, Len(NostrScheme) + 1)
         IN  IF StartsWith(s, NostrScheme) /\ e > Len(NostrScheme)
             THEN linkAnchor(SubSeq(s, 1, e)) \o nostrPass(SubSeq(s, e + 1, Len(s)))
             ELSE <<Head(s)>> \o nostrPass(Tail(s))

HttpScheme == <<"h", "t", "t", "p", ":", "/", "/">>
HttpsScheme == <<"h", "t", "t", "p", "s", ":", "/", "/">>

\* the last index of the run of [^\s<] that starts at from.  An attribute
\* value written by an earlier pass holds no "/", so the run never starts
\* inside one and never meets the piece that ends one.
RECURSIVE urlEnd(_, _)
urlEnd(s, from) ==
    IF from > Len(s) \/ s[from] \in Whitespace \cup Pieces \cup {"<"} THEN from - 1
    ELSE urlEnd(s, from + 1)

\* (?![^<]*>) at index from: false when a ">" comes before any "<"
NotInsideTag(s, from) ==
    LET k == indexOf(s, Pieces \cup {"<", ">"}, from)
    IN  k = 0 \/ s[k] \notin {WikiMid, LinkMid, ">"}

\* line 47: /(https?:\/\/[^\s<]+)(?![^<]*>)/g
RECURSIVE httpPass(_)
httpPass(s) ==
    IF s = <<>> THEN <<>>
    ELSE LET n == IF StartsWith(s, HttpsScheme) THEN Len(HttpsScheme)
                  ELSE IF StartsWith(s, HttpScheme) THEN Len(HttpScheme) ELSE 0
             e == urlEnd(s, n + 1)
         IN  IF n > 0 /\ e > n /\ NotInsideTag(s, e + 1)
             THEN linkAnchor(SubSeq(s, 1, e)) \o httpPass(SubSeq(s, e + 1, Len(s)))
             ELSE <<Head(s)>> \o httpPass(Tail(s))

\* line 50 inside the paragraphs: a run of two or more newlines separates
\* two paragraphs (joined by one newline), a single newline becomes <br>
RECURSIVE breaks(_)
breaks(s) ==
    IF s = <<>> THEN <<>>
    ELSE LET e == runEnd(s, {"\n"}, 1)
         IN  IF e >= 2
             THEN <<ParaClose, "\n", ParaOpen>> \o breaks(SubSeq(s, e + 1, Len(s)))
             ELSE IF e = 1 THEN <<Br>> \o breaks(Tail(s))
             ELSE <<Head(s)>> \o breaks(Tail(s))

\* line 50
paragraphs(s) == <<ParaOpen>> \o breaks(s) \o <<ParaClose>>

\* lines 33-51
renderContent(asciitxt) ==
    LET safe      == escapeHtml(asciitxt)
        withWiki  == wikiPass(safe)
        withNostr == nostrPass(withWiki)
        withHttp  == httpPass(withNostr)
    IN  paragraphs(withHttp)

-----------------------------------------------------------------------------
(* Records, frames, flows *)

\* Payload of an EVENT frame: an article record, or undefined when the frame
\* has no third element.  tags = FALSE: the record has no tags field.
Undefined == [id |-> 0, created_at |-> 0, tags |-> FALSE]
Records == { [id |-> 1, created_at |-> 1, tags |-> TRUE],
             [id |-> 2, created_at |-> 2, tags |-> TRUE],
             [id |-> 3, created_at |-> 2, tags |-> TRUE],
             [id |-> 4, created_at |-> 3, tags |-> FALSE] }

\* Inbound text frames by what JSON.parse and the destructuring make of them:
\*   "unparseable"  JSON.parse throws
\*   "nonarray"     parses to null or a number: not iterable
\*   "array"        parses to an array [type, id, payload]
\* Id 0 stands for an id no subscription of this page has.
AnyRecord == CHOOSE r \in Records : r.id = 1
Frames ==
    { [shape |-> "array", type |-> "EVENT", id |-> i, payload |-> p] :
          i \in 1..MaxFlows, p \in Records \cup {Undefined} }
    \cup { [shape |-> "array", type |-> "EOSE", id |-> i, payload |-> Undefined] :
          i \in 0..MaxFlows }
    \cup { [shape |-> "array", type |-> "EVENT", id |-> 0, payload |-> AnyRecord],
           [shape |-> "array", type |-> "NOTICE", id |-> 0, payload |-> Undefined],
           [shape |-> "unparseable", type |-> "", id |-> 0, payload |-> Undefined],
           [shape |-> "nonarray", type |-> "", id |-> 0, payload |-> Undefined] }

\* A flow suspended in `await ensureConnected(relay)`, or none.
NoFlow == [kind |-> "none", d |-> <<>>, from |-> "none"]
Flow(kind, d, from) == [kind |-> kind, d |-> d, from |-> from]

NewSocket(relayURL, waiter) ==
    [url |-> relayURL, readyState |-> CONNECTING, closeCode |-> 0,
     sent |-> <<>>, waiter |-> waiter]

InitialViewer == [kind |-> "initial", d |-> <<>>, rec |-> Undefined]
ConnectingViewer == [kind |-> "connecting", d |-> <<>>, rec |-> Undefined]
UnableViewer == [kind |-> "unable", d |-> <<>>, rec |-> Undefined]
NoArticlesViewer(d) == [kind |-> "noarticles", d |-> d, rec |-> Undefined]
ArticleViewer(ev) == [kind |-> "article", d |-> <<>>, rec |-> ev]

\* the "no results." placeholder <li>
NoResultsLi == [id |-> -1, created_at |-> 0, tags |-> FALSE]

-----------------------------------------------------------------------------
(* Outbound frames and subscriptions *)

ReqFrame(subId, kind, d) == [type |-> "REQ", id |-> subId, kind |-> kind, d |-> d]
CloseFrame(subId) == [type |-> "CLOSE", id |-> subId, kind |-> "none", d |-> <<>>]

\* sock.send(frame) on a socket that has left CONNECTING: the frame is handed
\* to the transport (and appended to what the socket was asked to send).
Send(sk, s, frame) == [sk EXCEPT ![s].sent = Append(@, frame)]

\* One subscription: the socket its REQ went to and its listener was added to,
\* the flow that issued it, the closure variable `items`, whether its listener
\* is still registered, and the observation history:
\*   hist     frames carrying its id dispatched to its listener, in order
\*   calls    invocations of onEvent / onEose, in order
\*   cancels  invocations of the function subscribe returned
NewSub(s, kind, d) ==
    [sock |-> s, kind |-> kind, d |-> d, items |-> <<>>, attached |-> TRUE,
     hist |-> <<>>, calls |-> <<>>, cancels |-> 0]

-----------------------------------------------------------------------------
(* Relay connection manager *)

\* mutant: the guard forgets readyState
NotOpen_NullOnly(sk, w) == w = 0

\* line 67: the guard of subscribe, on tracked socket w of sockets sk
NotOpen(sk, w) == w = 0 \/ sk[w].readyState # OPEN

\* mutant: the condition forgets the endpoint
NeedsConnect_AnyRelay(relayURL) == ws = 0 \/ socks[ws].readyState # OPEN

\* line 139: the condition under which ensureConnected reconnects
NeedsConnect(relayURL) ==
    ws = 0 \/ socks[ws].readyState # OPEN \/ currentRelay # relayURL

\* lines 54-57: ws.close(1000, 'reconnect') on the tracked socket, if any.
\* close() starts the closing handshake of an open socket and does nothing
\* to one already closing or closed.
CloseTracked ==
    IF ws # 0
    THEN [socks EXCEPT ![ws].closeCode = NormalClosure,
                       ![ws].readyState = IF @ = OPEN THEN CLOSING ELSE @]
    ELSE socks

\* lines 53-64: connect(relayURL), called by a flow that then awaits it
connect(relayURL, waiter) ==
    /\ socks' = Append(CloseTracked, NewSocket(relayURL, waiter))
    /\ ws' = 0

\* lines 66-70 and 71, 83: subscribe on tracked socket w of sockets sk.
\* The listener is added to the socket the REQ was sent on.
subscribe(sk, w, kind, d) ==
    IF NotOpen(sk, w)
    THEN /\ raised' = NotOpenError
         /\ socks' = sk
         /\ UNCHANGED <<subIdCounter, subs>>
    ELSE /\ raised' = NoError
         /\ subIdCounter' = subIdCounter + 1
         /\ socks' = Send(sk, w, ReqFrame(subIdCounter + 1, kind, d))
         /\ subs' = Append(subs, NewSub(w, kind, d))

\* lines 189, 193, 197-199: what the caller of a flow does when it rejects
FlowRejected(from) ==
    IF from = "load"
    THEN viewer' = UnableViewer /\ alertMsg' = NoAlert
    ELSE viewer' = viewer /\ alertMsg' = "error"

\* lines 104-112 / 126-135: the flow f, resumed after ensureConnected,
\* subscribes; an error thrown by subscribe rejects the flow.
Resume(sk, w, f) ==
    /\ subscribe(sk, w, f.kind, f.d)
    /\ IF NotOpen(sk, w)
       THEN FlowRejected(f.from)
       ELSE alertMsg' = NoAlert /\ viewer' = viewer

\* lines 102-112 / 124-135 after ensureConnected found the connection
\* reusable: the flow goes on to subscribe in the same task.
\* lines 138-144 otherwise: the lists are reset and the flow awaits connect.
StartFlow(relay, kind, d) ==
    /\ nFlows < budget.flows
    /\ nFlows' = nFlows + 1
    /\ IF NeedsConnect(relay)
       THEN /\ articles' = <<>>
            /\ viewer' = ConnectingViewer
            /\ connect(relay, Flow(kind, d, "click"))
            /\ raised' = NoError
            /\ alertMsg' = NoAlert
            /\ UNCHANGED <<currentRelay, subIdCounter, subs>>
       ELSE /\ Resume(socks, ws, Flow(kind, d, "click"))
            /\ UNCHANGED <<ws, currentRelay, articles>>
    /\ UNCHANGED <<nFrames, nCalls, budget>>

\* lines 99-113, up to the first pending await
fetchLatest(relay) == StartFlow(relay, "latest", <<>>)

\* mutant: the validation is missing
EmptyTopic_Never(d) == FALSE

\* line 120
EmptyTopic(d) == d = <<>>

\* lines 115-136, up to the first pending await
fetchByTopic(relay, topicInput) ==
    LET d == normalizeDTag(trim(topicInput))
    IN  IF EmptyTopic(d)
        THEN /\ nFlows < budget.flows
             /\ nFlows' = nFlows + 1
             /\ alertMsg' = "please enter a topic"
             /\ raised' = NoError
             /\ UNCHANGED <<socks, ws, currentRelay, subIdCounter, subs,
                            articles, viewer, nFrames, nCalls, budget>>
        ELSE StartFlow(relay, "topic", d)

-----------------------------------------------------------------------------
(* Transport events *)

\* line 60 and the continuation of the awaiting flow (lines 104-112, 126-135):
\* the promise resolves inside onopen, the flow resumes in the microtasks of
\* the same task, before any other event is dispatched.
SockOpen(s) ==
    /\ socks[s].readyState = CONNECTING
    /\ ws' = s
    /\ currentRelay' = socks[s].url
    /\ LET opened == [socks EXCEPT ![s].readyState = OPEN, ![s].waiter = NoFlow]
       IN  Resume(opened, s, socks[s].waiter)
    /\ UNCHANGED <<articles, nFlows, nFrames, nCalls, budget>>

\* line 61: the connection attempt fails; the flow's await rejects
SockError(s) ==
    /\ socks[s].readyState = CONNECTING
    /\ socks' = [socks EXCEPT ![s].readyState = CLOSED, ![s].waiter = NoFlow]
    /\ FlowRejected(socks[s].waiter.from)
    /\ raised' = NoError
    /\ UNCHANGED <<ws, currentRelay, subIdCounter, subs, articles, nFlows, nFrames,
                   nCalls, budget>>

\* line 62: an open socket is closed by the peer or the network; onclose is empty
SockDrop(s) ==
    /\ socks[s].readyState = OPEN
    /\ socks' = [socks EXCEPT ![s].readyState = CLOSED]
    /\ raised' = NoError
    /\ alertMsg' = NoAlert
    /\ UNCHANGED <<ws, currentRelay, subIdCounter, subs, articles, viewer,
                   nFlows, nFrames, nCalls, budget>>

-----------------------------------------------------------------------------
(* Subscription protocol handler and the flows' callbacks *)

\* lines 109, 131: the comparator passed to Array.prototype.sort
compare(a, b) == b.created_at - a.created_at

\* Array.prototype.sort is stable and moves undefined elements to the end
\* without passing them to the comparator.  Stable insertion: x, arriving
\* after everything in sorted, goes before the first y that compares after it.
RECURSIVE insertSorted(_, _)
insertSorted(x, sorted) ==
    IF sorted = <<>> THEN <<x>>
    ELSE IF compare(Head(sorted), x) > 0 THEN <<x>> \o sorted
    ELSE <<Head(sorted)>> \o insertSorted(x, Tail(sorted))

RECURSIVE sortDefined(_)
sortDefined(items) ==
    IF items = <<>> THEN <<>>
    ELSE insertSorted(items[Len(items)], sortDefined(SubSeq(items, 1, Len(items) - 1)))

IsDefined(ev) == ev.id # 0
IsUndefined(ev) == ev.id = 0

\* items.sort((a, b) => b.created_at - a.created_at)
sortItems(items) ==
    sortDefined(SelectSeq(items, IsDefined)) \o SelectSeq(items, IsUndefined)

\* lines 92-95, 153: tagValue(ev.tags, 'd') throws a TypeError when ev is
\* undefined or ev.tags is
Renders(ev) == ev.id # 0 /\ ev.tags

RECURSIVE renderedPrefix(_)
renderedPrefix(events) ==
    IF events = <<>> \/ ~Renders(Head(events)) THEN <<>>
    ELSE <<Head(events)>> \o renderedPrefix(Tail(events))

\* lines 146-167: the children of #articles when renderList returns or throws
renderList(events) ==
    IF Len(events) = 0 THEN <<NoResultsLi>> ELSE renderedPrefix(events)

renderListThrows(events) == \E k \in 1..Len(events) : ~Renders(events[k])

\* line 83: the function subscribe returns, called with tracked socket w
cancel(sk, w, subId) == IF w = 0 THEN sk ELSE Send(sk, w, CloseFrame(subId))

\* send() throws InvalidStateError on a socket that is still connecting
cancelThrows(sk, w) == w # 0 /\ sk[w].readyState = CONNECTING

\* line 73: JSON.parse succeeds
Parses(fr) == fr.shape # "unparseable"
\* line 74: the parsed value can be destructured as an array
Destructures(fr) == fr.shape = "array"
\* mutant: the listener forgets to compare the id
IsEventFor_AnyId(fr, subId) == fr.type = "EVENT"

\* line 75
IsEventFor(fr, subId) == fr.type = "EVENT" /\ fr.id = subId
\* mutant: the listener takes every end-of-stream marker as its own
IsEoseFor_AnyId(fr, subId) == fr.type = "EOSE"

\* line 78
IsEoseFor(fr, subId) == fr.type = "EOSE" /\ fr.id = subId

OnEventCall(payload) == [cb |-> "onEvent", arg |-> payload]
OnEoseCall == [cb |-> "onEose", arg |-> Undefined]

\* listeners registered on socket s, i.e. the handlers a message event on s runs
Listeners(s) == { i \in 1..Len(subs) : subs[i].sock = s /\ subs[i].attached }

\* the history entry of subscription i for frame fr arriving on socket s
Observed(i, s, fr) ==
    IF subs[i].sock = s /\ fr.shape = "array" /\ fr.id = i
       /\ fr.type \in {"EVENT", "EOSE"}
    THEN Append(subs[i].hist, [type |-> fr.type, payload |-> fr.payload])
    ELSE subs[i].hist

\* lines 75-77 for every listener of s: onEvent is items.push (lines 107, 129)
HandleEvent(s, fr) ==
    /\ subs' = [i \in 1..Len(subs) |->
                  IF i \in Listeners(s) /\ IsEventFor(fr, i)
                  THEN [subs[i] EXCEPT !.hist = Observed(i, s, fr),
                                       !.calls = Append(@, OnEventCall(fr.payload)),
                                       !.items = Append(@, fr.payload)]
                  ELSE [subs[i] EXCEPT !.hist = Observed(i, s, fr)]]
    /\ raised' = NoError
    /\ UNCHANGED <<socks, articles, viewer>>

\* lines 78-81 for listener i, with onEose of the flow that subscribed
\* (lines 108-111 / 130-134): sort in place, renderList, for a topic flow
\* showArticle or the placeholder, then close(), then removeEventListener on
\* whatever socket ws names at that moment.
\* A subscription made by a direct call (kind "api") has callbacks that do
\* nothing but return.
HandleEose(s, fr, i) ==
    LET sub      == subs[i]
        flow     == sub.kind # "api"
        sorted   == IF flow THEN sortItems(sub.items) ELSE sub.items
        threw    == flow /\ renderListThrows(sorted)
        closes   == flow /\ ~threw
        sendErr  == closes /\ cancelThrows(socks, ws)
        removes  == ~threw /\ ~sendErr
    IN  /\ subs' = [j \in 1..Len(subs) |->
                      IF j = i
                      THEN [sub EXCEPT !.hist = Observed(i, s, fr),
                                       !.calls = Append(@, OnEoseCall),
                                       !.items = sorted,
                                       !.cancels = IF closes THEN @ + 1 ELSE @,
                                       !.attached = ~(removes /\ ws = sub.sock)]
                      ELSE [subs[j] EXCEPT !.hist = Observed(j, s, fr)]]
        /\ articles' = IF flow THEN renderList(sorted) ELSE articles
        /\ viewer' = IF threw \/ sub.kind # "topic" THEN viewer
                     ELSE IF Len(sorted) > 0 THEN ArticleViewer(sorted[1])
                     ELSE NoArticlesViewer(sub.d)
        /\ socks' = IF closes /\ ~sendErr THEN cancel(socks, ws, i) ELSE socks
        /\ raised' = IF threw \/ (removes /\ ws = 0) THEN TypeError
                     ELSE IF sendErr THEN InvalidStateError ELSE NoError

\* A frame that runs no callback: only the histories record it
HandleNothing(s, fr) ==
    /\ subs' = [i \in 1..Len(subs) |-> [subs[i] EXCEPT !.hist = Observed(i, s, fr)]]
    /\ UNCHANGED <<socks, articles, viewer>>

\* lines 71-82: one message event on socket s.  The browser dispatches
\* message events only while the socket is open.  Subscription ids are
\* distinct, so at most one listener takes an EOSE frame as its own.
Deliver(s, fr) ==
    /\ nFrames < budget.frames
    /\ socks[s].readyState = OPEN
    /\ fr.id <= subIdCounter
    /\ nFrames' = nFrames + 1
    /\ alertMsg' = NoAlert
    /\ IF ~Parses(fr) \/ Listeners(s) = {}
       THEN HandleNothing(s, fr) /\ raised' = NoError
       ELSE IF ~Destructures(fr)
       THEN HandleNothing(s, fr) /\ raised' = TypeError
       ELSE IF \E i \in Listeners(s) : IsEoseFor(fr, i)
       THEN HandleEose(s, fr, CHOOSE i \in Listeners(s) : IsEoseFor(fr, i))
       ELSE IF \E i \in Listeners(s) : IsEventFor(fr, i)
       THEN HandleEvent(s, fr)
       ELSE HandleNothing(s, fr) /\ raised' = NoError
    /\ UNCHANGED <<ws, currentRelay, subIdCounter, nFlows, nCalls, budget>>

-----------------------------------------------------------------------------
(* The program *)

\* no function is being evaluated on its own
NoCall == [name |-> "none", arg |-> <<>>, out |-> <<>>, done |-> TRUE]

\* lines 196-199: the script ends by starting the latest flow, which finds no
\* connection (ws = null), resets the lists and awaits the first socket.
Init ==
    /\ socks = <<NewSocket(InitialRelay, Flow("latest", <<>>, "load"))>>
    /\ ws = 0
    /\ currentRelay = NoRelay
    /\ subIdCounter = 0
    /\ subs = <<>>
    /\ articles = <<>>
    /\ viewer = ConnectingViewer
    /\ alertMsg = NoAlert
    /\ raised = NoError
    /\ nFlows = 1
    /\ nFrames = 0
    /\ nCalls = 0
    /\ budget \in Budgets
    /\ call = NoCall

ClickLatest == UNCHANGED call /\ \E relay \in Relays : fetchLatest(relay)
ClickTopic ==
    UNCHANGED call /\ \E relay \in Relays, topicInput \in TopicInputs :
                         fetchByTopic(relay, topicInput)
Opened == UNCHANGED call /\ \E s \in 1..Len(socks) : SockOpen(s)
Failed == UNCHANGED call /\ \E s \in 1..Len(socks) : SockError(s)
Dropped == UNCHANGED call /\ \E s \in 1..Len(socks) : SockDrop(s)
Message == UNCHANGED call /\ \E s \in 1..Len(socks), fr \in Frames : Deliver(s, fr)

Next == ClickLatest \/ ClickTopic \/ Opened \/ Failed \/ Dropped \/ Message

Spec == Init /\ [][Next]_vars

-----------------------------------------------------------------------------
(* The page's functions called directly, as a test of them does *)

\* lines 66-84: subscribe(filters, onEvent, onEose) in the current state
CallSubscribe ==
    /\ nCalls < budget.calls
    /\ nCalls' = nCalls + 1
    /\ subscribe(socks, ws, "api", <<>>)
    /\ alertMsg' = NoAlert
    /\ UNCHANGED <<ws, currentRelay, articles, viewer, nFlows, nFrames, budget, call>>

\* line 83: the function subscribe returned for subscription i to a direct
\* caller (a flow keeps the function it got to itself)
CallCancel(i) ==
    /\ subs[i].kind = "api"
    /\ nCalls < budget.calls
    /\ nCalls' = nCalls + 1
    /\ subs' = [subs EXCEPT ![i].cancels = @ + 1]
    /\ socks' = IF cancelThrows(socks, ws) THEN socks ELSE cancel(socks, ws, i)
    /\ raised' = IF cancelThrows(socks, ws) THEN InvalidStateError ELSE NoError
    /\ alertMsg' = NoAlert
    /\ UNCHANGED <<ws, currentRelay, subIdCounter, articles, viewer, nFlows,
                   nFrames, budget>>

InitApi ==
    /\ socks = <<NewSocket(InitialRelay, Flow("latest", <<>>, "load"))>>
    /\ ws = 0
    /\ currentRelay = NoRelay
    /\ subIdCounter = 0
    /\ subs = <<>>
    /\ articles = <<>>
    /\ viewer = ConnectingViewer
    /\ alertMsg = NoAlert
    /\ raised = NoError
    /\ nFlows = 1
    /\ nFrames = 0
    /\ nCalls = 0
    /\ budget \in ApiBudgets
    /\ call = NoCall

Cancelled == UNCHANGED call /\ \E i \in 1..Len(subs) : CallCancel(i)

NextApi == Next \/ CallSubscribe \/ Cancelled

SpecApi == InitApi /\ [][NextApi]_vars

-----------------------------------------------------------------------------
(* Properties *)

SockIds == 1..Len(socks)
SubIds == 1..Len(subs)

\* a socket that is connecting or open and whose close the manager has not requested
Live(s) == socks[s].readyState \in {CONNECTING, OPEN} /\ socks[s].closeCode = 0
\* a socket the manager asked to close, or one that failed or was closed
Discarded(sk, s) == sk[s].closeCode # 0 \/ sk[s].readyState = CLOSED

AtMostOneLive == Cardinality({ s \in SockIds : Live(s) }) <= 1

\* C1: in every reachable state at most one socket created by connect is live
\* (connecting or open, close not requested), and whenever ws is assigned a
\* new socket every other socket created so far has already been discarded.
C1_OneLiveSocket ==
    /\ []AtMostOneLive
    /\ [][(ws' # ws /\ ws' # 0) =>
            \A t \in SockIds \ {ws'} : Discarded(socks, t)]_vars


IsOnEose(c) == c.cb = "onEose"
Completions(i) == Len(SelectSeq(subs[i].calls, IsOnEose))

\* C2: onComplete is invoked at most once per subscription, and once it has
\* been invoked nothing more is invoked for that subscription: an onEose call
\* can only be the last entry of the subscription's call log.
C2_CompleteOnceThenSilent ==
    \A i \in SubIds :
        \A k \in 1..Len(subs[i].calls) :
            subs[i].calls[k].cb = "onEose" => k = Len(subs[i].calls)

\* the callbacks a well-behaved listener makes for the frames h
Expected(h) ==
    [k \in 1..Len(h) |->
        IF h[k].type = "EVENT" THEN OnEventCall(h[k].payload) ELSE OnEoseCall]

EventsThenAtMostOneEose(h) == \A k \in 1..(Len(h) - 1) : h[k].type = "EVENT"

\* C3: while the frames carrying a subscription's id are n EVENT frames,
\* followed or not by one EOSE frame, its callbacks are exactly onRecord for
\* each payload in arrival order and then onComplete once; frames carrying
\* another id add nothing to them.
C3_RecordsInOrderThenComplete ==
    \A i \in SubIds :
        EventsThenAtMostOneEose(subs[i].hist) => subs[i].calls = Expected(subs[i].hist)

\* two different records then end-of-stream for one subscription, and one
\* more frame that was not for it
C3_Witness ==
    \E i \in SubIds :
        /\ Len(subs[i].hist) = 3
        /\ subs[i].hist[1].type = "EVENT" /\ subs[i].hist[2].type = "EVENT"
        /\ subs[i].hist[1].payload.created_at > subs[i].hist[2].payload.created_at
        /\ subs[i].hist[3].type = "EOSE"
        /\ subs[i].calls = Expected(subs[i].hist)
        /\ nFrames > 3 /\ Len(subs) = 1

Malformed(fr) ==
    \/ fr.shape # "array"
    \/ fr.type \notin {"EVENT", "EOSE"}
    \/ fr.type = "EVENT" /\ fr.payload = Undefined

SameCallbacksAndListeners ==
    \A i \in SubIds :
        /\ subs'[i].calls = subs[i].calls
        /\ subs'[i].attached = subs[i].attached

\* C4: a malformed inbound frame (unparseable text, JSON that is no array, an
\* EVENT without its record, an unknown type) runs no callback, raises no
\* error and leaves the listeners and the connection state as they were.
C4_MalformedDropped ==
    [][\A s \in SockIds, fr \in Frames :
          (Malformed(fr) /\ Deliver(s, fr)) =>
              /\ raised' = NoError
              /\ SameCallbacksAndListeners
              /\ UNCHANGED <<socks, ws, currentRelay>>]_vars

\* C5: subscribe called with no tracked socket, or with one that is not open,
\* throws and changes nothing: no frame sent, no listener added, counter, ws
\* and currentRelay as before.
C5_SubscribeDisconnectedFails ==
    [][((ws = 0 \/ socks[ws].readyState # OPEN) /\ CallSubscribe) =>
          /\ raised' = NotOpenError
          /\ UNCHANGED <<socks, subs, subIdCounter, ws, currentRelay>>]_vars

\* subscribe has just thrown on a tracked socket that is no longer open
C5_Witness ==
    /\ raised = NotOpenError
    /\ nCalls > 0
    /\ ws # 0
    /\ socks[ws].readyState # OPEN

\* a flow that reaches ensureConnected(relay)
StartsFlow(relay) ==
    \/ fetchLatest(relay)
    \/ \E t \in TopicInputs :
          normalizeDTag(trim(t)) # <<>> /\ fetchByTopic(relay, t)

CloseCodes(sk) == [s \in 1..Len(sk) |-> sk[s].closeCode]

\* C6: a flow calling ensureConnected(X) while the tracked socket is open and
\* bound to X creates no socket and closes none; otherwise it asks the
\* tracked socket, if any, to close with code 1000 and creates exactly one
\* new socket, to the requested endpoint.
C6_ReuseOrReplace ==
    [][\A relay \in Relays :
          StartsFlow(relay) =>
              IF ws # 0 /\ socks[ws].readyState = OPEN /\ socks[ws].url = relay
              THEN /\ Len(socks') = Len(socks)
                   /\ CloseCodes(socks') = CloseCodes(socks)
                   /\ ws' = ws
              ELSE /\ Len(socks') = Len(socks) + 1
                   /\ socks'[Len(socks')].url = relay
                   /\ socks'[Len(socks')].readyState = CONNECTING
                   /\ \A t \in SockIds :
                         socks'[t].closeCode =
                            IF t = ws THEN NormalClosure ELSE socks[t].closeCode]_vars

\* one socket served two flows and was then replaced by a socket to another endpoint
C6_Witness ==
    \E i, j \in SubIds :
        /\ i < j
        /\ subs[i].sock = subs[j].sock
        /\ socks[subs[i].sock].closeCode = NormalClosure
        /\ \E t \in SockIds : t > subs[i].sock /\ socks[t].url # socks[subs[i].sock].url

IsCloseFor(f, i) == f.type = "CLOSE" /\ f.id = i

RECURSIVE CountClose(_, _)
CountClose(sent, i) ==
    IF sent = <<>> THEN 0
    ELSE (IF IsCloseFor(Head(sent), i) THEN 1 ELSE 0) + CountClose(Tail(sent), i)

RECURSIVE CloseFramesUpTo(_, _)
CloseFramesUpTo(s, i) ==
    IF s = 0 THEN 0 ELSE CountClose(socks[s].sent, i) + CloseFramesUpTo(s - 1, i)

\* CLOSE frames naming subscription i handed to any socket so far
CloseFrames(i) == CloseFramesUpTo(Len(socks), i)

\* C7: for every subscription of a flow, one CLOSE frame naming it has been
\* sent once its end-of-stream marker has been processed, and none before.
C7_CloseExactlyOnceOnCompletion ==
    \A i \in SubIds :
        subs[i].kind \in {"latest", "topic"} =>
            CloseFrames(i) = IF Completions(i) > 0 THEN 1 ELSE 0

\* C8: every invocation of a subscription's cancel function has sent exactly
\* one CLOSE frame naming it and none has raised.
C8_CancelSendsOneClose ==
    /\ \A i \in SubIds : CloseFrames(i) = subs[i].cancels
    /\ raised # InvalidStateError

\* C9: a topic flow whose input normalizes to the empty string reports the
\* validation failure and changes nothing else: no socket created or closed,
\* no frame, no listener, ws, currentRelay, counter, list and viewer as before.
C9_EmptyTopicAborts ==
    [][\A relay \in Relays, t \in TopicInputs :
          (normalizeDTag(t) = <<>> /\ fetchByTopic(relay, t)) =>
              /\ alertMsg' = "please enter a topic"
              /\ UNCHANGED <<socks, ws, currentRelay, subIdCounter, subs,
                             articles, viewer>>]_vars

\* the validation failure was reported while a connection and a list were up
C9_Witness ==
    /\ alertMsg = "please enter a topic"
    /\ ws # 0
    /\ Len(subs) > 0

IsOnEvent(c) == c.cb = "onEvent"
\* the records passed to onEvent for subscription i, in arrival order
Buffered(i) ==
    LET evs == SelectSeq(subs[i].calls, IsOnEvent)
    IN  [k \in 1..Len(evs) |-> evs[k].arg]

IsArticleLi(li) == li.id # NoResultsLi.id

\* list holds the elements of arrival, each once, newest first, equal
\* timestamps in arrival order
StableDescending(list, arrival) ==
    /\ Len(list) = Len(arrival)
    /\ \E p \in [1..Len(arrival) -> 1..Len(arrival)] :
          /\ \A a, b \in 1..Len(arrival) : a # b => p[a] # p[b]
          /\ \A k \in 1..Len(arrival) : list[k] = arrival[p[k]]
          /\ \A k \in 1..(Len(arrival) - 1) :
                \/ list[k].created_at > list[k + 1].created_at
                \/ /\ list[k].created_at = list[k + 1].created_at
                   /\ p[k] < p[k + 1]

\* onEose has just been invoked for flow subscription i, whose buffer holds
\* records only
Completes(i) ==
    /\ subs[i].kind \in {"latest", "topic"}
    /\ Len(subs'[i].calls) = Len(subs[i].calls) + 1
    /\ subs'[i].calls[Len(subs'[i].calls)].cb = "onEose"
    /\ \A k \in 1..Len(Buffered(i)) : IsDefined(Buffered(i)[k])

\* C10: when a flow's subscription completes, the rendered list holds exactly
\* the records buffered for it, ordered by created_at descending, records of
\* equal created_at in arrival order.
C10_RenderedSortedStable ==
    [][\A i \in SubIds :
          Completes(i) =>
              StableDescending(SelectSeq(articles', IsArticleLi), Buffered(i))]_vars

\* What does hold of lines 109 and 131: the list is the stable descending
\* sort of the buffer whenever every buffered record has a tags field.
SortedStableWhenAllRender ==
    [][\A i \in SubIds :
          (Completes(i) /\ \A k \in 1..Len(Buffered(i)) : Renders(Buffered(i)[k])) =>
              StableDescending(SelectSeq(articles', IsArticleLi), Buffered(i))]_vars

\* rec is a record of arrival with the greatest created_at, the one that
\* arrived first among those
IsNewestEarliest(rec, arrival) ==
    \E k \in 1..Len(arrival) :
        /\ arrival[k] = rec
        /\ \A j \in 1..Len(arrival) :
              /\ arrival[j].created_at <= rec.created_at
              /\ j < k => arrival[j].created_at < rec.created_at

\* C11: when a topic flow's subscription completes with an empty buffer the
\* viewer shows the placeholder naming the topic and no article; with a
\* non-empty buffer the viewer shows the buffered record of greatest
\* created_at, the earliest-arrived among equals.
C11_TopicCompletionShows ==
    [][\A i \in SubIds :
          (Completes(i) /\ subs[i].kind = "topic") =>
              IF Buffered(i) = <<>>
              THEN viewer' = NoArticlesViewer(subs[i].d)
              ELSE /\ viewer'.kind = "article"
                   /\ IsNewestEarliest(viewer'.rec, Buffered(i))]_vars

\* What does hold of lines 130-134: the same, for buffers whose records all
\* have a tags field.
TopicShowsWhenAllRender ==
    [][\A i \in SubIds :
          (Completes(i) /\ subs[i].kind = "topic"
             /\ \A k \in 1..Len(Buffered(i)) : Renders(Buffered(i)[k])) =>
              IF Buffered(i) = <<>>
              THEN viewer' = NoArticlesViewer(subs[i].d)
              ELSE /\ viewer'.kind = "article"
                   /\ IsNewestEarliest(viewer'.rec, Buffered(i))]_vars

\* C15: when a flow's subscription completes, renderList has run to its end:
\* every record buffered for it, whatever fields it lacks, has its entry in
\* the rendered list.
C15_RenderingNeverFails ==
    [][\A i \in SubIds :
          Completes(i) =>
              \A k \in 1..Len(Buffered(i)) :
                  \E j \in 1..Len(articles') : articles'[j] = Buffered(i)[k]]_vars

\* the flow that awaited a socket has been rejected to its caller
Rejected(from) ==
    IF from = "load" THEN viewer' = UnableViewer ELSE alertMsg' = "error"

\* C16: when a connecting socket reports an error the awaiting flow is
\* rejected, no open socket is tracked afterwards (subscribe would throw) and
\* no socket is created; sockets are only ever created by a flow that
\* reaches ensureConnected.
C16_FailedAttemptLeavesDisconnected ==
    /\ [][\A s \in SockIds :
             SockError(s) =>
                 /\ Rejected(socks[s].waiter.from)
                 /\ ws' = 0 \/ socks'[ws'].readyState # OPEN
                 /\ Len(socks') = Len(socks)]_vars
    /\ [][Len(socks') # Len(socks) => \E relay \in Relays : StartsFlow(relay)]_vars

\* What does hold of lines 58-63: the same, when the failing socket is the
\* only live one.
FailedAloneLeavesDisconnected ==
    /\ [][\A s \in SockIds :
             (SockError(s) /\ AtMostOneLive) =>
                 /\ Rejected(socks[s].waiter.from)
                 /\ ws' = 0 \/ socks'[ws'].readyState # OPEN
                 /\ Len(socks') = Len(socks)]_vars
    /\ [][Len(socks') # Len(socks) => \E relay \in Relays : StartsFlow(relay)]_vars

IsReqFor(f, i) == f.type = "REQ" /\ f.id = i

RECURSIVE CountReq(_, _)
CountReq(sent, i) ==
    IF sent = <<>> THEN 0
    ELSE (IF IsReqFor(Head(sent), i) THEN 1 ELSE 0) + CountReq(Tail(sent), i)

RECURSIVE ReqFramesUpTo(_, _)
ReqFramesUpTo(s, i) ==
    IF s = 0 THEN 0 ELSE CountReq(socks[s].sent, i) + ReqFramesUpTo(s - 1, i)

\* REQ frames naming id i handed to any socket so far
ReqFrames(i) == ReqFramesUpTo(Len(socks), i)

\* C17: the subscriptions issued so far have the ids 1..subIdCounter, one
\* each; exactly one REQ frame names each id, sent on the subscription's
\* socket, and no REQ frame names another id; a step that invokes a callback
\* invokes one callback of one subscription, and that step delivered a frame
\* carrying this subscription's id on its socket.
C17_DistinctIdsOwnCallbacks ==
    /\ [](/\ subIdCounter = Len(subs)
          /\ \A i \in SubIds :
                /\ ReqFrames(i) = 1
                /\ CountReq(socks[subs[i].sock].sent, i) = 1
          /\ \A s \in SockIds : \A k \in 1..Len(socks[s].sent) :
                socks[s].sent[k].type = "REQ" => socks[s].sent[k].id \in SubIds)
    /\ [][\A i \in SubIds :
             subs'[i].calls # subs[i].calls =>
                 /\ Len(subs'[i].calls) = Len(subs[i].calls) + 1
                 /\ Len(subs'[i].hist) = Len(subs[i].hist) + 1
                 /\ \A j \in SubIds \ {i} : subs'[j].calls = subs[j].calls]_vars

\* two subscriptions listening on one socket have each had a callback run
C17_Witness ==
    \E i, j \in SubIds :
        /\ i # j
        /\ subs[i].sock = subs[j].sock
        /\ subs[i].calls # <<>>
        /\ subs[j].calls # <<>>

\* the step has issued a subscription whose REQ frame is the last thing sent
\* on socket s, and s is open and bound to relay
IssuedOn(s, relay) ==
    /\ Len(subs') = Len(subs) + 1
    /\ subs'[Len(subs')].sock = s
    /\ socks'[s].url = relay
    /\ socks'[s].readyState = OPEN
    /\ socks'[s].sent # <<>>
    /\ IsReqFor(socks'[s].sent[Len(socks'[s].sent)], Len(subs'))

\* C18: a flow that read endpoint relay and subscribes in the task that
\* started it sends its REQ on an open socket bound to relay; a flow that
\* awaited the socket it had connect create for its endpoint sends its REQ
\* on that socket, open, whatever other flows did in between.
C18_ReqOnOwnEndpoint ==
    /\ [][\A relay \in Relays :
             (StartsFlow(relay) /\ subs' # subs) => IssuedOn(ws', relay)]_vars
    /\ [][\A s \in SockIds :
             SockOpen(s) => IssuedOn(s, socks[s].url)]_vars

\* two flows connected to different endpoints at overlapping times and each
\* subscribed on its own socket
C18_Witness ==
    \E i, j \in SubIds :
        /\ socks[subs[i].sock].url # socks[subs[j].sock].url
        /\ socks[subs[i].sock].closeCode = 0
        /\ socks[subs[j].sock].closeCode = 0
        /\ ReqFrames(i) = 1 /\ ReqFrames(j) = 1

\* C19: every CLOSE frame is on the socket the REQ frame for its id was sent
\* on, and the listener removal that follows it in onEose removes the
\* listener from that socket: a subscription whose CLOSE frame has been sent
\* has no listener left.
C19_CloseOnReqSocket ==
    /\ \A s \in SockIds : \A k \in 1..Len(socks[s].sent) :
          socks[s].sent[k].type = "CLOSE" =>
              CountReq(socks[s].sent, socks[s].sent[k].id) = 1
    /\ \A i \in SubIds : CloseFrames(i) > 0 => ~subs[i].attached

\* What does hold of lines 78-83: the same, as long as no socket has opened
\* that was still connecting when connect created a later one.
CloseOnReqSocketWhenNoOverlap ==
    (\A s, t \in SockIds :
        s < t => socks[s].closeCode # 0 \/ socks[s].sent = <<>>)
        => C19_CloseOnReqSocket

-----------------------------------------------------------------------------
(* Functions of the page evaluated on their own *)

\* the page's variables while only a function is evaluated
PageIdle ==
    /\ socks = <<>>
    /\ ws = 0
    /\ currentRelay = NoRelay
    /\ subIdCounter = 0
    /\ subs = <<>>
    /\ articles = <<>>
    /\ viewer = InitialViewer
    /\ alertMsg = NoAlert
    /\ raised = NoError
    /\ nFlows = 0
    /\ nFrames = 0
    /\ nCalls = 0
    /\ budget = [flows |-> 0, frames |-> 0, calls |-> 0]

pageVars == <<socks, ws, currentRelay, subIdCounter, subs, articles, viewer,
              alertMsg, raised, nFlows, nFrames, nCalls, budget>>

\* the strings over alphabet of length at most n
RECURSIVE StringsUpTo(_, _)
StringsUpTo(alphabet, n) ==
    IF n = 0 THEN {<<>>}
    ELSE LET shorter == StringsUpTo(alphabet, n - 1)
         IN  shorter \cup { Append(s, c) : s \in shorter, c \in alphabet }

MaxTopicLen == 4
TopicAlphabet == {"a", "B", "-", " ", "!"}
HelloWorld == <<"H", "e", "l", "l", "o", ",", " ", "W", "o", "r", "l", "d", "!">>
NormalizeInputs == StringsUpTo(TopicAlphabet, MaxTopicLen) \cup {HelloWorld}

InitNormalize ==
    /\ PageIdle
    /\ call \in { [name |-> "normalizeDTag", arg |-> s, out |-> <<>>, done |-> FALSE] :
                     s \in NormalizeInputs }

\* lines 16-23 applied to the argument
Normalize ==
    /\ call.name = "normalizeDTag"
    /\ ~call.done
    /\ call' = [call EXCEPT !.out = normalizeDTag(call.arg), !.done = TRUE]
    /\ UNCHANGED pageVars

SpecNormalize == InitNormalize /\ [][Normalize]_vars

\* s matches ^[a-z]+(-[a-z]+)*$
IsTopicKey(s) ==
    /\ s # <<>>
    /\ \A k \in 1..Len(s) : s[k] \in Letters \cup {"-"}
    /\ s[1] # "-"
    /\ s[Len(s)] # "-"
    /\ \A k \in 1..(Len(s) - 1) : ~(s[k] = "-" /\ s[k + 1] = "-")

\* C12: normalizeDTag gives, for every string, the empty string or a string
\* of lowercase letters and single inner hyphens, which it maps to itself;
\* "Hello, World!" gives "hello-world" and "" gives "".
C12_NormalizeShapeIdempotent ==
    call.done =>
        /\ call.out = <<>> \/ IsTopicKey(call.out)
        /\ normalizeDTag(call.out) = call.out
        /\ call.arg = HelloWorld =>
              call.out = <<"h", "e", "l", "l", "o", "-", "w", "o", "r", "l", "d">>
        /\ call.arg = <<>> => call.out = <<>>

\* an input with upper case, a run of separators and separators at both ends
C12_Witness ==
    /\ call.done
    /\ call.arg = <<"!", "B", " ", "-">>
    /\ call.out = <<"b">>

MaxWords == 4
\* what the texts are made of: the marks of a cross-reference, plain,
\* HTML-significant and quote characters, the two link schemes, a newline
Vocabulary ==
    { <<"[", "[">>, <<"]", "]">>, <<"|">>, <<"a">>, <<"B">>, <<" ">>, <<"&">>,
      <<"<">>, <<"\"">>, <<"\n">>, HttpScheme, NostrScheme }

\* the concatenations of at most n words
RECURSIVE WordTexts(_)
WordTexts(n) ==
    IF n = 0 THEN {<<>>}
    ELSE LET shorter == WordTexts(n - 1)
         IN  shorter \cup { s \o w : s \in shorter, w \in Vocabulary }

\* one cross-reference with and without a label
CrossRefParts == StringsUpTo({"a", "B", " ", "&"}, 2) \ {<<>>}
CrossRefTexts ==
    { <<"[", "[">> \o t \o <<"]", "]">> : t \in CrossRefParts }
    \cup { <<"[", "[">> \o t \o <<"|">> \o l \o <<"]", "]">> :
              t \in CrossRefParts, l \in CrossRefParts }
FooBarSee ==
    <<"[", "[", "F", "o", "o", " ", "B", "a", "r", "|", "s", "e", "e", "]", "]">>

RenderInputs == WordTexts(MaxWords) \cup CrossRefTexts \cup {FooBarSee}

InitRender ==
    /\ PageIdle
    /\ call \in { [name |-> "renderContent", arg |-> s, out |-> <<>>, done |-> FALSE] :
                     s \in RenderInputs }

\* lines 33-51 applied to the argument
Render ==
    /\ call.name = "renderContent"
    /\ ~call.done
    /\ call' = [call EXCEPT !.out = renderContent(call.arg), !.done = TRUE]
    /\ UNCHANGED pageVars

SpecRender == InitRender /\ [][Render]_vars

\* the cross-references of a raw text, in order
RECURSIVE crossRefs(_)
crossRefs(raw) ==
    IF raw = <<>> THEN <<>>
    ELSE LET m == wikiMatch(raw)
         IN  IF m.found THEN <<m>> \o crossRefs(SubSeq(raw, m.end + 1, Len(raw)))
             ELSE crossRefs(Tail(raw))

\* the index of the </a> that closes the anchor whose content starts at k
RECURSIVE closing(_, _, _)
closing(out, k, depth) ==
    IF k > Len(out) THEN 0
    ELSE IF out[k] = AnchorEnd
    THEN (IF depth = 0 THEN k ELSE closing(out, k + 1, depth - 1))
    ELSE IF out[k] \in {WikiOpen, LinkOpen} THEN closing(out, k + 1, depth + 1)
    ELSE closing(out, k + 1, depth)

\* the characters of markup a reader sees: those outside the tags
RECURSIVE visible(_)
visible(out) ==
    IF out = <<>> THEN <<>>
    ELSE IF Head(out) \in {WikiOpen, LinkOpen}
    THEN LET m == indexOf(out, {WikiMid, LinkMid}, 1)
         IN  IF m = 0 THEN <<>> ELSE visible(SubSeq(out, m + 1, Len(out)))
    ELSE IF Head(out) \in Pieces THEN visible(Tail(out))
    ELSE <<Head(out)>> \o visible(Tail(out))

\* the cross-reference anchors of markup, in order: the value of data-wiki
\* and the visible text
RECURSIVE wikiAnchors(_, _)
wikiAnchors(out, from) ==
    LET o == indexOf(out, {WikiOpen}, from)
        m == indexOf(out, {WikiMid}, o)
        e == closing(out, m + 1, 0)
    IN  IF o = 0 \/ m = 0 \/ e = 0 THEN <<>>
        ELSE <<[d |-> SubSeq(out, o + 1, m - 1), text |-> visible(SubSeq(out, m + 1, e - 1))]>>
                \o wikiAnchors(out, e + 1)

HasNewline(s) == \E k \in 1..Len(s) : s[k] = "\n"
HtmlSignificant == {"&", "<", ">"}
IsPlain(s) == \A k \in 1..Len(s) : s[k] \notin HtmlSignificant

\* the anchor a cross-reference of the raw text is to give
ExpectedAnchor(ref) ==
    [d |-> normalizeDTag(ref.target),
     text |-> escapeHtml(IF ref.hasLabel THEN ref.label ELSE trim(ref.target))]

\* C13: the output has one cross-reference anchor per cross-reference of the
\* raw text, in order, whose data-wiki is normalizeDTag of the raw target and
\* whose visible text is the raw label (the raw target when there is no
\* label) escaped once.
C13_CrossRefAnchors ==
    (call.name = "renderContent" /\ call.done) =>
        LET refs    == crossRefs(call.arg)
            anchors == wikiAnchors(call.out, 1)
        IN  /\ Len(anchors) = Len(refs)
            /\ \A k \in 1..Len(refs) :
                  ~(HasNewline(refs[k].target) \/ HasNewline(refs[k].label)) =>
                      anchors[k] = ExpectedAnchor(refs[k])

\* What does hold of lines 37-41: the same, for cross-references whose
\* target and label hold none of &, < and >.
PlainCrossRefAnchors ==
    (call.name = "renderContent" /\ call.done) =>
        LET refs    == crossRefs(call.arg)
            anchors == wikiAnchors(call.out, 1)
        IN  /\ Len(anchors) = Len(refs)
            /\ \A k \in 1..Len(refs) :
                  (/\ ~(HasNewline(refs[k].target) \/ HasNewline(refs[k].label))
                   /\ IsPlain(refs[k].target) /\ IsPlain(refs[k].label)) =>
                      anchors[k] = ExpectedAnchor(refs[k])

\* the characters of markup inside a double-quoted attribute value
InAttribute(out, k) ==
    /\ out[k] \notin Pieces
    /\ \E j \in 1..(k - 1) :
          /\ out[j] \in {WikiOpen, LinkOpen}
          /\ \A i \in (j + 1)..(k - 1) : out[i] \notin Pieces

\* C14: in the output no character that came from the article opens or
\* closes a tag, and none ends an attribute value: the elements and the
\* attributes are those of the renderer's templates.
C14_OnlyRendererMarkup ==
    (call.name = "renderContent" /\ call.done) =>
        \A k \in 1..Len(call.out) :
            /\ call.out[k] \notin {"<", ">"}
            /\ InAttribute(call.out, k) => call.out[k] # "\""

-----------------------------------------------------------------------------
(* The count limit of lines 101 and 118 *)

MinLimit == 1
MaxLimit == 100
DefaultLimit == 10

\* how far below MinLimit and above MaxLimit the typed integers go
LimitSpread == 3

\* Number(value) of what #limit holds: an integer as typed, 0 for the empty
\* field, NaN for text that is no number
NaN == [nan |-> TRUE, n |-> 0]
Num(n) == [nan |-> FALSE, n |-> n]
LimitValues ==
    { [text |-> "integer", n |-> k] : k \in (MinLimit - LimitSpread)..(MaxLimit + LimitSpread) }
    \cup { [text |-> "empty", n |-> 0], [text |-> "letters", n |-> 0] }
Number(value) ==
    IF value.text = "letters" THEN NaN
    ELSE IF value.text = "empty" THEN Num(0)
    ELSE Num(value.n)

\* x || DefaultLimit: NaN and 0 are falsy
OrDefault(x) == IF x.nan \/ x.n = 0 THEN DefaultLimit ELSE x.n

Min(a, b) == IF a < b THEN a ELSE b
Max(a, b) == IF a > b THEN a ELSE b

\* lines 101, 118: Math.max(1, Math.min(100, Number(value) || 10))
limitOf(value) == Max(MinLimit, Min(MaxLimit, OrDefault(Number(value))))

InitLimit ==
    /\ PageIdle
    /\ call \in { [name |-> "limit", arg |-> v, out |-> 0, done |-> FALSE] :
                     v \in LimitValues }

\* lines 101, 118 applied to the value of #limit
Limit ==
    /\ call.name = "limit"
    /\ ~call.done
    /\ call' = [call EXCEPT !.out = limitOf(call.arg), !.done = TRUE]
    /\ UNCHANGED pageVars

SpecLimit == InitLimit /\ [][Limit]_vars

\* C20: for every integer n typed into #limit the limit of the REQ filter is
\* max(1, min(100, n)): 1 for n below 1 (0 included), 100 for n above 100,
\* n otherwise.
C20_LimitClamped ==
    (call.name = "limit" /\ call.done /\ call.arg.text = "integer") =>
        call.out = IF call.arg.n < 1 THEN 1
                   ELSE IF call.arg.n > 100 THEN 100
                   ELSE call.arg.n

\* What does hold of lines 101 and 118: the limit is an integer of 1..100,
\* and the clamped input except for the input 0.
LimitClampedExceptZero ==
    (call.name = "limit" /\ call.done) =>
        /\ call.out \in 1..100
        /\ (call.arg.text = "integer" /\ call.arg.n # 0) =>
              call.out = IF call.arg.n < 1 THEN 1
                         ELSE IF call.arg.n > 100 THEN 100
                         ELSE call.arg.n

====
